---- MODULE Spec2Model ----
(***************************************************************************)
(* State-machine model of bot.py: RateLimiter, ConversationManager and the *)
(* GeminiBot handlers that use them (handle_message, clear_command,        *)
(* _prune_history_by_tokens, _stream_and_edit_message, _periodic_cleanup). *)
(*                                                                         *)
(* Time is counted in minutes.  Python dicts are functions whose DOMAIN is *)
(* the set of keys; Python lists that are shared by reference live in      *)
(* `heap`, and a variable that holds a list holds its reference.           *)
(***************************************************************************)
EXTENDS Integers, Sequences, FiniteSets, TLC

\* ------------------------------------------------------------- bounds
NumUsers == 2
NumFlows == 2
MaxTurns == 3
MaxOffset == 1
MaxCost == 3
MaxRateCap == 2
MaxMsgCap == 3
MaxWindow == 2
MaxBudget == 2

\* ------------------------------------------------- program constants
HOUR == 60
DAY == 1440
CLEANUP_INTERVAL == 60

Users == 1..NumUsers
Flows == 1..NumFlows
Refs == 1..(NumUsers + NumFlows + 1)
\* the users who chat with the bot in the handlers' specification
Senders == {1}
NoRef == 0
\* the instants the clock is observed at: a few minutes apart, an hour later,
\* and more than a day later
Instants == (0..MaxOffset) \cup {HOUR, DAY + MaxOffset}
LongWaits == {DAY + MaxOffset}

VARIABLES
    config,          \* class Config, read once from the environment
    now,             \* datetime.now(), in minutes
    user_requests,   \* RateLimiter.user_requests: user -> list of timestamps
    conversations,   \* ConversationManager.conversations: user -> list reference
    last_activity,   \* ConversationManager.last_activity: user -> timestamp
    heap,            \* list objects: reference -> sequence of turns (<<>> = free)
    flows,           \* the running handle_message coroutines
    nextId,          \* identity of the next turn object created
    cleanupDue,      \* the time _periodic_cleanup's sleep ends
    sweep,           \* where _periodic_cleanup is inside one pass of its loop
    admitted,        \* observer: per user, the admission times still inside the window
    last             \* the operation that was executed last, with what it saw

vars == <<config, now, user_requests, conversations, last_activity, heap, flows,
          nextId, cleanupDue, sweep, admitted, last>>

\* ------------------------------------------------------ Python values
\* dict.get(k, default), d[k] = v and del d[k]
Get(d, k, default) == IF k \in DOMAIN d THEN d[k] ELSE default
Put(d, k, v) == [x \in (DOMAIN d) \cup {k} |-> IF x = k THEN v ELSE d[x]]
Del(d, k) == [x \in (DOMAIN d) \ {k} |-> d[x]]

\* lst[-n:] as Python computes it: n = 0 gives lst[0:], the whole list
SliceLast(lst, n) ==
    IF n = 0 \/ n >= Len(lst) THEN lst ELSE SubSeq(lst, Len(lst) - n + 1, Len(lst))

\* a turn is {"role": role, "parts": parts}; `id` is the identity of the parts
\* object and `cost` what the token counter charges for it
Turn(i, role, c) == [id |-> i, role |-> role, cost |-> c]
Costs == {1, MaxCost}

RECURSIVE SumCost(_)
SumCost(lst) == IF lst = <<>> THEN 0 ELSE Head(lst).cost + SumCost(Tail(lst))

\* model.count_tokens(history).total_tokens
count_tokens(lst) == SumCost(lst)

\* the lowest free list reference
NewRef(h) == CHOOSE r \in Refs : h[r] = <<>> /\ \A q \in Refs : h[q] = <<>> => r <= q

\* reference counting: a list no dict entry and no coroutine refers to is freed
Collect(h, conv, fl) ==
    [r \in Refs |->
        IF (\E u \in DOMAIN conv : conv[u] = r) \/ (\E f \in Flows : fl[f].history = r)
        THEN h[r] ELSE <<>>]

\* --------------------------------------------------------- RateLimiter
\* a filter that also keeps the timestamp lying exactly on the cutoff
valid_timestamps_inclusive(timestamps, cutoff) ==
    SelectSeq(timestamps, LAMBDA t : t >= cutoff)

valid_timestamps(timestamps, cutoff) == SelectSeq(timestamps, LAMBDA t : t > cutoff)

\* a comparison that lets one request too many through
at_limit_strict(valid) == Len(valid) > config.RATE_LIMIT_REQUESTS

at_limit(valid) == Len(valid) >= config.RATE_LIMIT_REQUESTS

\* a limiter that counts the rejected attempt too
rejected_list_recording(valid) == Append(valid, now)

rejected_list(valid) == valid

is_allowed(user_id) ==
    LET cutoff == now - config.RATE_LIMIT_MINUTES
        timestamps == Get(user_requests, user_id, <<>>)
        valid == valid_timestamps(timestamps, cutoff)
    IN  IF at_limit(valid)
        THEN [allowed |-> FALSE,
              user_requests |-> Put(user_requests, user_id, rejected_list(valid))]
        ELSE [allowed |-> TRUE,
              user_requests |-> Put(user_requests, user_id, Append(valid, now))]

\* a cleanup that keeps the entry of a user whose timestamps have all expired
cleanup_old_data_keeps_empty ==
    [u \in DOMAIN user_requests |-> valid_timestamps(user_requests[u], now - HOUR)]

cleanup_old_data ==
    LET cutoff == now - HOUR
        kept == {u \in DOMAIN user_requests :
                    valid_timestamps(user_requests[u], cutoff) # <<>>}
    IN  [u \in kept |-> valid_timestamps(user_requests[u], cutoff)]

\* ------------------------------------------------- ConversationManager
get_conversation(user_id) ==
    IF user_id \in DOMAIN conversations THEN heap[conversations[user_id]] ELSE <<>>

truncate(lst) ==
    IF Len(lst) > config.MAX_CONVERSATION_MESSAGES
    THEN SliceLast(lst, config.MAX_CONVERSATION_MESSAGES) ELSE lst

\* add_message: append in place to the stored list (created when absent); a
\* history over the cap is replaced by a new list holding the slice
add_message(user_id, turn) ==
    LET r == IF user_id \in DOMAIN conversations
             THEN conversations[user_id] ELSE NewRef(heap)
        appended == Append(heap[r], turn)
        heap1 == [heap EXCEPT ![r] = appended]
        r2 == NewRef(heap1)
        over == Len(appended) > config.MAX_CONVERSATION_MESSAGES
    IN  [conversations |-> Put(conversations, user_id, IF over THEN r2 ELSE r),
         heap |-> IF over THEN [heap1 EXCEPT ![r2] = truncate(appended)] ELSE heap1,
         last_activity |-> Put(last_activity, user_id, now)]

\* a clear that empties both maps, whoever asked
clear_conversation_all(conv, act, user_id) ==
    [conversations |-> [x \in (DOMAIN conv) \ (Users \cup {user_id}) |-> conv[x]],
     last_activity |-> [x \in (DOMAIN act) \ (Users \cup {user_id}) |-> act[x]]]

clear_conversation(conv, act, user_id) ==
    [conversations |-> Del(conv, user_id), last_activity |-> Del(act, user_id)]

\* a cutoff test that also expires a conversation idle for exactly 24 hours
to_remove_inclusive == {uid \in DOMAIN last_activity : last_activity[uid] <= now - DAY}

\* a cleanup that expires at most one conversation per call
to_remove_one ==
    {uid \in DOMAIN last_activity :
        /\ last_activity[uid] < now - DAY
        /\ \A v \in DOMAIN last_activity : last_activity[v] < now - DAY => uid <= v}

to_remove == {uid \in DOMAIN last_activity : last_activity[uid] < now - DAY}

\* for uid in to_remove: self.clear_conversation(uid)
RECURSIVE clear_each(_, _, _)
clear_each(S, conv, act) ==
    IF S = {} THEN [conversations |-> conv, last_activity |-> act]
    ELSE LET uid == CHOOSE x \in S : TRUE
             c == clear_conversation(conv, act, uid)
         IN  clear_each(S \ {uid}, c.conversations, c.last_activity)

cleanup_inactive_conversations == clear_each(to_remove, conversations, last_activity)

\* ------------------------------------------------------------ records
\* a handle_message coroutine: where it is suspended (pc), its user_id, the
\* list its `history` / `pruned_history` refers to, the count the worker thread
\* read, and for the running _prune_history_by_tokens call the history it
\* started from, the number of count_tokens calls made, the identity of the
\* handler's own turn and whether count_tokens raised
IdleFlow ==
    [pc |-> "idle", user |-> 0, history |-> NoRef, tokens |-> 0,
     start |-> <<>>, iters |-> 0, own |-> 0, failed |-> FALSE]

\* what `last` records: the operation, its user, its coroutine and its outcome
\* (for a cleanup cycle also the users whose conversation it removed and the
\* users whose rate entry it dropped)
Op(op, u, f, ok) ==
    [op |-> op, user |-> u, flow |-> f, ok |-> ok, removed |-> {}, dropped |-> {}]

Other == Op("other", 0, 0, TRUE)

InWindow(t, at) == at - t < config.RATE_LIMIT_MINUTES

Typing == {f \in Flows : flows[f].pc = "typing"}

\* the configurations of the handlers' specification: the smallest message cap
\* and one that the turns of a run do not exceed
Configs ==
    [RATE_LIMIT_MINUTES : {1}, RATE_LIMIT_REQUESTS : {MaxRateCap},
     MAX_CONVERSATION_MESSAGES : {1, MaxMsgCap}, MAX_CONTEXT_TOKENS : {MaxBudget}]

\* the configurations of the manager's specification: every message cap, 0 too
ManagerConfigs ==
    [RATE_LIMIT_MINUTES : {1}, RATE_LIMIT_REQUESTS : {MaxRateCap},
     MAX_CONVERSATION_MESSAGES : 0..MaxMsgCap, MAX_CONTEXT_TOKENS : {MaxBudget}]

\* the configurations of the limiter's specification: every window and request cap
LimiterConfigs ==
    [RATE_LIMIT_MINUTES : 1..MaxWindow, RATE_LIMIT_REQUESTS : 1..MaxRateCap,
     MAX_CONVERSATION_MESSAGES : {MaxMsgCap}, MAX_CONTEXT_TOKENS : {MaxBudget}]

\* configurations whose admission window is as long as, or longer than, the
\* hour cleanup_old_data looks back
LongWindowConfigs ==
    [RATE_LIMIT_MINUTES : {1, HOUR, HOUR + MaxOffset}, RATE_LIMIT_REQUESTS : 1..MaxRateCap,
     MAX_CONVERSATION_MESSAGES : {MaxMsgCap}, MAX_CONTEXT_TOKENS : {MaxBudget}]

\* _periodic_cleanup waits in asyncio.sleep: no pass is under way
Asleep == [pc |-> "asleep", todo |-> {}, removed |-> {}]

\* one configuration, with the largest caps of the handlers' specification
AtomicConfigs ==
    [RATE_LIMIT_MINUTES : {1}, RATE_LIMIT_REQUESTS : {MaxRateCap},
     MAX_CONVERSATION_MESSAGES : {MaxMsgCap}, MAX_CONTEXT_TOKENS : {MaxBudget}]

InitState ==
    /\ now = 0
    /\ user_requests = <<>>
    /\ conversations = <<>>
    /\ last_activity = <<>>
    /\ heap = [r \in Refs |-> <<>>]
    /\ flows = [f \in Flows |-> IdleFlow]
    /\ nextId = 1
    /\ cleanupDue = CLEANUP_INTERVAL
    /\ sweep = Asleep
    /\ admitted = [u \in Users |-> <<>>]
    /\ last = Other

Init == config \in Configs /\ InitState

InitLimiter == config \in LimiterConfigs /\ InitState

InitManager == config \in ManagerConfigs /\ InitState

InitLongWindow == config \in LongWindowConfigs /\ InitState

InitAtomic == config \in AtomicConfigs /\ InitState

\* ------------------------------------------------------------ actions
\* the wall clock moves on, to one of the instants of S
TickTo(S) ==
    \E t \in S :
        /\ t > now
        /\ now' = t
        /\ admitted' = [u \in Users |-> SelectSeq(admitted[u], LAMBDA x : InWindow(x, t))]
        /\ last' = Other
        /\ UNCHANGED <<config, user_requests, conversations, last_activity, heap,
                       flows, nextId, cleanupDue, sweep>>

\* a handler needs one of the concurrent_updates slots
FreeSlot(f) == flows[f].pc = "idle" /\ \A g \in Flows : flows[g].pc = "idle" => f <= g

\* handle_message, up to its first suspension, when the limiter rejects
HandleRejected(f, u) ==
    /\ FreeSlot(f)
    /\ ~is_allowed(u).allowed
    /\ user_requests' = is_allowed(u).user_requests
    /\ last' = Op("is_allowed", u, 0, FALSE)
    /\ UNCHANGED <<config, now, conversations, last_activity, heap, flows, nextId,
                   cleanupDue, sweep, admitted>>

\* handle_message when the limiter admits; `usable` is FALSE for a message with
\* neither text nor photo, or whose photo cannot be downloaded
HandleAdmitted(f, u, usable) ==
    /\ FreeSlot(f)
    /\ is_allowed(u).allowed
    /\ usable => nextId + Cardinality(Typing) <= MaxTurns
    /\ user_requests' = is_allowed(u).user_requests
    /\ admitted' = [admitted EXCEPT ![u] = Append(@, now)]
    /\ flows' = IF usable THEN [flows EXCEPT ![f] = [IdleFlow EXCEPT !.pc = "typing", !.user = u]]
                ELSE flows
    /\ last' = Op("is_allowed", u, 0, TRUE)
    /\ UNCHANGED <<config, now, conversations, last_activity, heap, nextId, cleanupDue, sweep>>

\* send_chat_action raises: the handler reports the error and returns
TypingFails(f) ==
    /\ flows[f].pc = "typing"
    /\ flows' = [flows EXCEPT ![f] = IdleFlow]
    /\ last' = Other
    /\ UNCHANGED <<config, now, user_requests, conversations, last_activity, heap,
                   nextId, cleanupDue, sweep, admitted>>

\* add_message(user_id, "user", parts), then _prune_history_by_tokens up to
\* its first await of count_tokens
AddUserTurn(f, c) ==
    LET u == flows[f].user
        am == add_message(u, Turn(nextId, "user", c))
        h == am.conversations[u]
        fl == [flows EXCEPT ![f] = [@ EXCEPT !.pc = "counting", !.history = h,
                                             !.start = am.heap[h], !.iters = 1,
                                             !.own = nextId]]
    IN  /\ flows[f].pc = "typing"
        /\ conversations' = am.conversations
        /\ last_activity' = am.last_activity
        /\ flows' = fl
        /\ heap' = Collect(am.heap, am.conversations, fl)
        /\ nextId' = nextId + 1
        /\ last' = Other
        /\ UNCHANGED <<config, now, user_requests, cleanupDue, sweep, admitted>>

\* the worker thread of asyncio.to_thread reads the list it was given
CountRead(f) ==
    /\ flows[f].pc = "counting"
    /\ flows' = [flows EXCEPT ![f] = [@ EXCEPT !.pc = "counted",
                                               !.tokens = count_tokens(heap[flows[f].history])]]
    /\ last' = Other
    /\ UNCHANGED <<config, now, user_requests, conversations, last_activity, heap,
                   nextId, cleanupDue, sweep, admitted>>

within_budget(tokens) == tokens <= config.MAX_CONTEXT_TOKENS

can_drop(lst) == Len(lst) > 1

pop0(lst) == Tail(lst)

\* the end of _prune_history_by_tokens: write the list back and return it;
\* handle_message then awaits the placeholder reply (or reports an empty history)
PruneReturn(f, failed) ==
    LET u == flows[f].user
        h == flows[f].history
        conv == Put(conversations, u, h)
        fl == [flows EXCEPT ![f] =
                  IF heap[h] = <<>> THEN IdleFlow
                  ELSE [@ EXCEPT !.pc = "placeholder", !.failed = failed,
                                 !.tokens = 0]]
    IN  /\ conversations' = conv
        /\ flows' = fl
        /\ heap' = Collect(heap, conv, fl)
        /\ last' = IF failed THEN Op("count_failed", u, f, FALSE) ELSE Other
        /\ UNCHANGED <<config, now, user_requests, last_activity, nextId, cleanupDue, sweep,
                       admitted>>

\* a handler that gives the request up when count_tokens raises
CountFailAborts(f) ==
    LET fl == [flows EXCEPT ![f] = IdleFlow]
    IN  /\ flows[f].pc \in {"counting", "counted"}
        /\ flows' = fl
        /\ heap' = Collect(heap, conversations, fl)
        /\ last' = Op("count_failed", flows[f].user, f, FALSE)
        /\ UNCHANGED <<config, now, user_requests, conversations, last_activity,
                       nextId, cleanupDue, sweep, admitted>>

\* count_tokens raises: the loop is left
CountFail(f) ==
    /\ flows[f].pc \in {"counting", "counted"}
    /\ PruneReturn(f, TRUE)

\* count_tokens returns: one iteration of the pruning loop
CountReturn(f) ==
    LET h == flows[f].history
    IN  /\ flows[f].pc = "counted"
        /\ IF ~within_budget(flows[f].tokens) /\ can_drop(heap[h])
           THEN /\ heap' = [heap EXCEPT ![h] = pop0(@)]
                /\ flows' = [flows EXCEPT ![f] = [@ EXCEPT !.pc = "counting",
                                                           !.iters = @ + 1]]
                /\ last' = Other
                /\ UNCHANGED <<config, now, user_requests, conversations,
                               last_activity, nextId, cleanupDue, sweep, admitted>>
           ELSE PruneReturn(f, FALSE)

EndFlow(f) ==
    LET fl == [flows EXCEPT ![f] = IdleFlow]
    IN  /\ flows' = fl
        /\ heap' = Collect(heap, conversations, fl)
        /\ last' = Other
        /\ UNCHANGED <<config, now, user_requests, conversations, last_activity,
                       nextId, cleanupDue, sweep, admitted>>

\* reply_text("...") returned: generate_content_async(contents=pruned_history)
PlaceholderSent(f) ==
    /\ flows[f].pc = "placeholder"
    /\ flows' = [flows EXCEPT ![f] = [@ EXCEPT !.pc = "generating", !.start = <<>>,
                                               !.iters = 0]]
    /\ last' = Other
    /\ UNCHANGED <<config, now, user_requests, conversations, last_activity, heap,
                   nextId, cleanupDue, sweep, admitted>>

PlaceholderFails(f) ==
    /\ flows[f].pc = "placeholder"
    /\ EndFlow(f)

\* the completion call raises (quota, filter, configuration, transient)
GenerateFails(f) ==
    /\ flows[f].pc = "generating"
    /\ EndFlow(f)

\* full_response.strip()
has_text(resp) == resp = "text"

\* the stream ends, full_response being `resp`: "" (no text at all), "blank"
\* (only white space) or "text"; with text: final edit, then
\* add_message(user_id, "model", ...)
StreamEndsWithText(f, resp, c) ==
    LET u == flows[f].user
        am == add_message(u, Turn(nextId, "model", c))
        fl == [flows EXCEPT ![f] = IdleFlow]
    IN  /\ flows[f].pc = "generating"
        /\ has_text(resp)
        /\ nextId + Cardinality(Typing) <= MaxTurns
        /\ conversations' = am.conversations
        /\ last_activity' = am.last_activity
        /\ flows' = fl
        /\ heap' = Collect(am.heap, am.conversations, fl)
        /\ nextId' = nextId + 1
        /\ last' = Other
        /\ UNCHANGED <<config, now, user_requests, cleanupDue, sweep, admitted>>

\* the stream ends with no text or only white space: nothing is appended
StreamEndsEmpty(f, resp) ==
    /\ flows[f].pc = "generating"
    /\ ~has_text(resp)
    /\ EndFlow(f)

\* the stream raises or is interrupted
StreamFails(f) ==
    /\ flows[f].pc = "generating"
    /\ EndFlow(f)

\* clear_command
ClearCommand(u) ==
    LET c == clear_conversation(conversations, last_activity, u)
    IN  /\ conversations' = c.conversations
        /\ last_activity' = c.last_activity
        /\ heap' = Collect(heap, c.conversations, flows)
        /\ last' = Op("clear", u, 0, TRUE)
        /\ UNCHANGED <<config, now, user_requests, flows, nextId, cleanupDue, sweep, admitted>>

\* _periodic_cleanup: one turn of the loop after its sleep
PeriodicCleanup ==
    LET c == cleanup_inactive_conversations
    IN  /\ now >= cleanupDue
        /\ conversations' = c.conversations
        /\ last_activity' = c.last_activity
        /\ user_requests' = cleanup_old_data
        /\ heap' = Collect(heap, c.conversations, flows)
        /\ cleanupDue' = now + CLEANUP_INTERVAL
        /\ last' = [Op("cleanup", 0, 0, TRUE) EXCEPT
                        !.removed = to_remove,
                        !.dropped = (DOMAIN user_requests) \ (DOMAIN cleanup_old_data)]
        /\ UNCHANGED <<config, now, flows, nextId, sweep, admitted>>

\* a task that ends when one of its cleanups raises
PeriodicCleanupFailsAndStops(S, done) ==
    LET c == clear_each(S, conversations, last_activity)
    IN  /\ now >= cleanupDue
        /\ done => S = to_remove
        /\ conversations' = c.conversations
        /\ last_activity' = c.last_activity
        /\ user_requests' = IF done THEN cleanup_old_data ELSE user_requests
        /\ heap' = Collect(heap, c.conversations, flows)
        /\ cleanupDue' = DAY + DAY
        /\ last' = [Op("cleanup", 0, 0, FALSE) EXCEPT !.removed = S]
        /\ UNCHANGED <<config, now, flows, nextId, sweep, admitted>>

\* _periodic_cleanup when a cleanup raises: cleanup_inactive_conversations after
\* it cleared the users of S, or (done) cleanup_old_data after it stored the
\* cleaned map; the exception is logged and the loop sleeps again
PeriodicCleanupFails(S, done) ==
    LET c == clear_each(S, conversations, last_activity)
    IN  /\ now >= cleanupDue
        /\ done => S = to_remove
        /\ conversations' = c.conversations
        /\ last_activity' = c.last_activity
        /\ user_requests' = IF done THEN cleanup_old_data ELSE user_requests
        /\ heap' = Collect(heap, c.conversations, flows)
        /\ cleanupDue' = now + CLEANUP_INTERVAL
        /\ last' = [Op("cleanup", 0, 0, FALSE) EXCEPT !.removed = S]
        /\ UNCHANGED <<config, now, flows, nextId, sweep, admitted>>

\* ConversationManager.add_message called on its own
CallAddMessage(u, role, c) ==
    LET am == add_message(u, Turn(nextId, role, c))
    IN  /\ nextId <= MaxTurns
        /\ conversations' = am.conversations
        /\ last_activity' = am.last_activity
        /\ heap' = Collect(am.heap, am.conversations, flows)
        /\ nextId' = nextId + 1
        /\ last' = Op("add_message", u, 0, TRUE)
        /\ UNCHANGED <<config, now, user_requests, flows, cleanupDue, sweep, admitted>>

Tick == TickTo(Instants)

LongWait == TickTo(LongWaits)

\* the clock is seen exactly 24 hours after the start
ExactDay == TickTo({DAY})

\* _periodic_cleanup statement by statement. asyncio.sleep returns, and
\* cleanup_inactive_conversations lists the users it will clear
CleanupWakes ==
    /\ sweep.pc = "asleep"
    /\ now >= cleanupDue
    /\ sweep' = [pc |-> "clearing", todo |-> to_remove, removed |-> {}]
    /\ last' = Other
    /\ UNCHANGED <<config, now, user_requests, conversations, last_activity, heap,
                   flows, nextId, cleanupDue, admitted>>

\* one clear_conversation of the loop over to_remove
CleanupClears(uid) ==
    LET c == clear_conversation(conversations, last_activity, uid)
    IN  /\ sweep.pc = "clearing"
        /\ uid \in sweep.todo
        /\ conversations' = c.conversations
        /\ last_activity' = c.last_activity
        /\ heap' = Collect(heap, c.conversations, flows)
        /\ sweep' = [sweep EXCEPT !.todo = @ \ {uid}, !.removed = @ \cup {uid}]
        /\ last' = Other
        /\ UNCHANGED <<config, now, user_requests, flows, nextId, cleanupDue, admitted>>

\* the loop is through: cleanup_old_data stores the cleaned map, and the task
\* goes back to asyncio.sleep
CleanupEnds ==
    /\ sweep.pc = "clearing"
    /\ sweep.todo = {}
    /\ user_requests' = cleanup_old_data
    /\ cleanupDue' = now + CLEANUP_INTERVAL
    /\ sweep' = Asleep
    /\ last' = [Op("cleanup", 0, 0, TRUE) EXCEPT
                    !.removed = sweep.removed,
                    !.dropped = (DOMAIN user_requests) \ (DOMAIN cleanup_old_data)]
    /\ UNCHANGED <<config, now, conversations, last_activity, heap, flows, nextId,
                   admitted>>

\* an event loop that runs other callbacks in the middle of a cleanup pass
LoopShared == TRUE

\* the event loop can run another callback: from the return of asyncio.sleep to
\* the next asyncio.sleep a pass of _periodic_cleanup has no await, and the two
\* cleanup methods are plain functions, so the loop is taken until the pass ends
LoopFree == sweep.pc = "asleep"

\* the slot of the one handle_message that runs beside the cleanup pass
Running == {f \in Flows : \A g \in Flows : f <= g}

\* one step of that handler, or of clear_command
HandlerStep ==
    \/ \E f \in Running, u \in Senders : HandleRejected(f, u)
    \/ \E f \in Running, u \in Senders, usable \in BOOLEAN : HandleAdmitted(f, u, usable)
    \/ \E f \in Running : TypingFails(f)
    \/ \E f \in Running, c \in Costs : AddUserTurn(f, c)
    \/ \E f \in Running : CountRead(f)
    \/ \E f \in Running : CountFail(f)
    \/ \E f \in Running : CountReturn(f)
    \/ \E f \in Running : PlaceholderSent(f)
    \/ \E f \in Running : PlaceholderFails(f)
    \/ \E f \in Running : GenerateFails(f)
    \/ \E f \in Running, c \in Costs : StreamEndsWithText(f, "text", c)
    \/ \E f \in Running, resp \in {"", "blank"} : StreamEndsEmpty(f, resp)
    \/ \E f \in Running : StreamFails(f)
    \/ \E u \in Senders : ClearCommand(u)

\* the handlers of the chatting user, a turn stored for another user, and the
\* cleanup pass statement by statement; everything but the pass itself needs
\* the event loop
NextAtomic ==
    \/ LoopFree /\ LongWait
    \/ LoopFree /\ HandlerStep
    \/ LoopFree /\ \E u \in Users \ Senders : CallAddMessage(u, "user", MaxCost)
    \/ CleanupWakes
    \/ \E uid \in Users : CleanupClears(uid)
    \/ CleanupEnds

\* the clock moves by minutes, inside and past the admission window
ShortWait == TickTo(1..MaxOffset)

\* the handlers of every user, from the admission check to the end of pruning
\* (the reply then fails), and /clear of every user, side by side
NextIsolation ==
    \/ ShortWait
    \/ \E f \in Flows, u \in Users : HandleRejected(f, u)
    \/ \E f \in Flows, u \in Users : HandleAdmitted(f, u, TRUE)
    \/ \E f \in Flows : TypingFails(f)
    \/ \E f \in Flows : AddUserTurn(f, MaxCost)
    \/ \E f \in Flows : CountRead(f)
    \/ \E f \in Flows : CountFail(f)
    \/ \E f \in Flows : CountReturn(f)
    \/ \E f \in Flows : PlaceholderFails(f)
    \/ \E u \in Users : ClearCommand(u)

\* RateLimiter under its callers: updates that are rejected or that carry nothing
\* usable, and the periodic cleanup, at any of the instants
NextLimiter ==
    \/ Tick
    \/ \E f \in Flows, u \in Users : HandleRejected(f, u)
    \/ \E f \in Flows, u \in Users : HandleAdmitted(f, u, FALSE)
    \/ PeriodicCleanup

\* ConversationManager under direct calls of its methods
NextManager ==
    \/ LongWait
    \/ ExactDay
    \/ \E u \in Users, role \in {"user", "model"}, c \in Costs : CallAddMessage(u, role, c)
    \/ \E u \in Users : ClearCommand(u)
    \/ PeriodicCleanup

\* one turn of the loop of _periodic_cleanup, whatever its outcome
CleanupCycle ==
    \/ PeriodicCleanup
    \/ \E S \in SUBSET to_remove, done \in BOOLEAN : PeriodicCleanupFails(S, done)

\* the cleanup task beside direct calls of the two managers
NextTask ==
    \/ Tick
    \/ \E u \in Users : CallAddMessage(u, "user", MaxCost)
    \/ \E f \in Flows, u \in Senders : HandleAdmitted(f, u, FALSE)
    \/ CleanupCycle

\* GeminiBot: the handlers of one chatting user, /clear and the periodic cleanup,
\* with a clock that is only seen to move by more than a day
Next ==
    \/ LongWait
    \/ \E f \in Flows, u \in Senders : HandleRejected(f, u)
    \/ \E f \in Flows, u \in Senders, usable \in BOOLEAN : HandleAdmitted(f, u, usable)
    \/ \E f \in Flows : TypingFails(f)
    \/ \E f \in Flows, c \in Costs : AddUserTurn(f, c)
    \/ \E f \in Flows : CountRead(f)
    \/ \E f \in Flows : CountFail(f)
    \/ \E f \in Flows : CountReturn(f)
    \/ \E f \in Flows : PlaceholderSent(f)
    \/ \E f \in Flows : PlaceholderFails(f)
    \/ \E f \in Flows : GenerateFails(f)
    \/ \E f \in Flows, c \in Costs : StreamEndsWithText(f, "text", c)
    \/ \E f \in Flows, resp \in {"", "blank"} : StreamEndsEmpty(f, resp)
    \/ \E f \in Flows : StreamFails(f)
    \/ \E u \in Senders : ClearCommand(u)
    \/ PeriodicCleanup

Spec == Init /\ [][Next]_vars

SpecLimiter == InitLimiter /\ [][NextLimiter]_vars

SpecManager == InitManager /\ [][NextManager]_vars

\* the cleanup task: time passes, and asyncio.sleep returns when it is due
SpecTask ==
    /\ Init
    /\ [][NextTask]_vars
    /\ WF_vars(Tick)
    /\ WF_vars(CleanupCycle)

\* RateLimiter configured with an admission window of an hour or more
SpecLongWindow == InitLongWindow /\ [][NextLimiter]_vars

\* the handlers beside a cleanup pass that is taken apart into its statements
SpecAtomic == InitAtomic /\ [][NextAtomic]_vars

\* GeminiBot with every user chatting at once
SpecIsolation == InitAtomic /\ [][NextIsolation]_vars

\* ============================================================== claims
\* ---------------------------------------------------------- RateLimiter
\* the timestamps of `lst` that are strictly newer than `cutoff`, in order
RECURSIVE NewerThan(_, _)
NewerThan(lst, cutoff) ==
    IF lst = <<>> THEN <<>>
    ELSE IF Head(lst) > cutoff
         THEN <<Head(lst)>> \o NewerThan(Tail(lst), cutoff)
         ELSE NewerThan(Tail(lst), cutoff)

\* the number of admissions the user had inside the window when the last
\* is_allowed call was made
AdmittedBefore == Len(admitted[last.user]) - (IF last.ok THEN 1 ELSE 0)

C2_RejectionRecordsNothing ==
    [][(last'.op = "is_allowed" /\ ~last'.ok) =>
         /\ last'.user \in DOMAIN user_requests'
         /\ user_requests'[last'.user] =
                NewerThan(Get(user_requests, last'.user, <<>>),
                          now - config.RATE_LIMIT_MINUTES)
         /\ \A v \in DOMAIN user_requests' \ {last'.user} :
                v \in DOMAIN user_requests /\ user_requests'[v] = user_requests[v]
      ]_vars

\* a request was rejected for a user whose window is full, with a cap of two
C2_Witness ==
    /\ last.op = "is_allowed" /\ ~last.ok
    /\ config.RATE_LIMIT_REQUESTS = MaxRateCap
    /\ Len(Get(user_requests, last.user, <<>>)) = MaxRateCap

\* C3: every stored timestamp list has at most request_cap entries, and after
\* an is_allowed(user) call every timestamp stored for the user is strictly
\* newer than now - window.
C3_RateWindowInvariant ==
    /\ \A u \in DOMAIN user_requests :
           Len(user_requests[u]) <= config.RATE_LIMIT_REQUESTS
    /\ last.op = "is_allowed" =>
           \A i \in 1..Len(Get(user_requests, last.user, <<>>)) :
               user_requests[last.user][i] > now - config.RATE_LIMIT_MINUTES

\* an admitted call has dropped an expired timestamp and has filled the window
C3_Witness ==
    /\ last.op = "is_allowed" /\ last.ok
    /\ Len(Get(user_requests, last.user, <<>>)) = config.RATE_LIMIT_REQUESTS
    /\ Len(admitted[last.user]) = 1
    /\ now > 0


\* -------------------------------------------------- ConversationManager
Min(a, b) == IF a <= b THEN a ELSE b

\* the last k elements of lst, in their order
LastTurns(lst, k) == [i \in 1..k |-> lst[Len(lst) - k + i]]

\* the history stored for the user, before and after the step
History(u) == IF u \in DOMAIN conversations THEN heap[conversations[u]] ELSE <<>>

HistoryAfter(u) == IF u \in DOMAIN conversations' THEN heap'[conversations'[u]] ELSE <<>>

\* the step is add_message(u, ...) and leaves exactly the last
\* min(cap, old_length + 1) turns of the old history followed by the new turn
AddMessageKeepsLast(u) ==
    \E role \in {"user", "model"}, c \in Costs :
        LET all == Append(History(u), Turn(nextId, role, c))
        IN  /\ u \in DOMAIN conversations'
            /\ HistoryAfter(u) =
                   LastTurns(all, Min(config.MAX_CONVERSATION_MESSAGES, Len(all)))
            /\ Len(HistoryAfter(u)) <= config.MAX_CONVERSATION_MESSAGES

\* C4 as stated, for every configured cap: after add_message(user, role, parts)
\* the user's history is exactly the last min(cap, old_length + 1) turns of the
\* old history followed by the new turn, so its length is at most the cap.
C4_AddMessageEveryCap ==
    [][last'.op = "add_message" => AddMessageKeepsLast(last'.user)]_vars

\* C4 for the caps of at least 1 only: there add_message leaves exactly the
\* last min(cap, old_length + 1) turns, in their order.
C4_AddMessagePositiveCap ==
    [][(last'.op = "add_message" /\ config.MAX_CONVERSATION_MESSAGES >= 1) =>
           AddMessageKeepsLast(last'.user)]_vars

\* ------------------------------------------------------------ GeminiBot
\* C5: in every reachable state the history stored for each user has at most
\* MAX_CONVERSATION_MESSAGES turns, also when handle_message flows of one user
\* interleave at their suspension points.
C5_LengthInvariant ==
    \A u \in DOMAIN conversations :
        Len(heap[conversations[u]]) <= config.MAX_CONVERSATION_MESSAGES

\* s is a contiguous suffix of t
IsSuffix(s, t) == Len(s) <= Len(t) /\ s = LastTurns(t, Len(s))

\* the step in which _prune_history_by_tokens of coroutine f returns
PruneReturns(f) ==
    flows[f].pc \in {"counting", "counted"} /\ flows'[f].pc = "placeholder"

\* what that call returns
Returned(f) == heap'[flows'[f].history]

\* C6: the history _prune_history_by_tokens returns, and persists, is a
\* contiguous suffix of the history it started from: same turns, same order,
\* never longer.
C6_PruneKeepsSuffix ==
    [][\A f \in Flows : PruneReturns(f) =>
           /\ IsSuffix(Returned(f), flows[f].start)
           /\ HistoryAfter(flows[f].user) = Returned(f)]_vars

\* the history fits the budget, or is one turn that alone exceeds it
Fits(lst) ==
    \/ SumCost(lst) <= config.MAX_CONTEXT_TOKENS
    \/ Len(lst) = 1 /\ lst[1].cost > config.MAX_CONTEXT_TOKENS

\* C7: when token counting never fails, the history _prune_history_by_tokens
\* persists fits the budget or is the one newest turn that alone exceeds it, and
\* it is the longest suffix of the starting history that does.
C7_PrunePostcondition ==
    [][\A f \in Flows : (PruneReturns(f) /\ ~flows'[f].failed) =>
           /\ HistoryAfter(flows[f].user) = Returned(f)
           /\ IsSuffix(Returned(f), flows[f].start)
           /\ Fits(Returned(f))
           /\ \A k \in (Len(Returned(f)) + 1)..Len(flows[f].start) :
                  ~Fits(LastTurns(flows[f].start, k))]_vars

\* C8: the number of token-counting iterations of a _prune_history_by_tokens
\* call never exceeds the length the history had when the call started.
C8_IterationsBounded ==
    \A f \in Flows :
        flows[f].pc \in {"counting", "counted"} => flows[f].iters <= Len(flows[f].start)

\* C9: when count_tokens fails, the loop stops at once, the history as
\* trimmed so far is persisted and returned unchanged and non-empty, the handler
\* goes on to the completion call, and that call is given this history.
C9_FailOpen ==
    [][/\ last'.op = "count_failed" =>
              LET f == last'.flow
                  h == flows[f].history
              IN  /\ flows'[f].pc = "placeholder"
                  /\ flows'[f].history = h
                  /\ heap[h] # <<>>
                  /\ heap'[h] = heap[h]
                  /\ flows[f].user \in DOMAIN conversations'
                  /\ conversations'[flows[f].user] = h
       /\ \A f \in Flows :
              (flows[f].pc = "placeholder" /\ flows'[f].pc = "generating") =>
                  /\ flows'[f].history = flows[f].history
                  /\ flows'[f].failed = flows[f].failed
                  /\ heap'[flows'[f].history] # <<>>
      ]_vars

\* after a counting failure the completion call is running on the history
\* that was persisted
C9_Witness ==
    \E f \in Flows :
        /\ flows[f].pc = "generating"
        /\ flows[f].failed
        /\ flows[f].user \in DOMAIN conversations
        /\ conversations[flows[f].user] = flows[f].history

\* the user has neither a stored history nor a last-activity record
Absent(u) == u \notin DOMAIN conversations /\ u \notin DOMAIN last_activity

AbsentAfter(u) == u \notin DOMAIN conversations' /\ u \notin DOMAIN last_activity'

\* C10: after clear_conversation(user) the user has no history and no
\* last-activity record and get_conversation(user) is empty; a user in that state
\* stays in it over every step that is not an add_message, also the return of a
\* _prune_history_by_tokens that was suspended during the clear; clearing an
\* absent user changes nothing.
C10_ClearedStaysCleared ==
    [][/\ last'.op = "clear" =>
              /\ AbsentAfter(last'.user)
              /\ HistoryAfter(last'.user) = <<>>
              /\ Absent(last'.user) =>
                     conversations' = conversations /\ last_activity' = last_activity
       /\ \A u \in Users : (Absent(u) /\ nextId' = nextId) => AbsentAfter(u)
      ]_vars


\* ------------------------------------------------------ periodic cleanup
\* the step leaves the user's history and last-activity record as they were
SameConversation(u) ==
    /\ (u \in DOMAIN conversations') = (u \in DOMAIN conversations)
    /\ HistoryAfter(u) = History(u)
    /\ (u \in DOMAIN last_activity') = (u \in DOMAIN last_activity)
    /\ u \in DOMAIN last_activity => last_activity'[u] = last_activity[u]

\* C11: cleanup_inactive_conversations removes the history and the
\* last-activity record of exactly the users whose last activity is older than
\* now - 24h, and leaves every other user's history and last activity unchanged.
C11_CleanupRemovesExactlyIdle ==
    [][last'.op = "cleanup" =>
           \A u \in Users :
               IF u \in DOMAIN last_activity /\ last_activity[u] < now - DAY
               THEN AbsentAfter(u) /\ HistoryAfter(u) = <<>>
               ELSE SameConversation(u)]_vars

\* a cleanup has removed one user's conversation and has kept another's
C11_Witness ==
    /\ last.op = "cleanup"
    /\ last.removed # {}
    /\ \A u \in last.removed : Absent(u)
    /\ \E v \in Users \ last.removed : History(v) # <<>> /\ v \in DOMAIN last_activity


\* C12: cleanup_inactive_conversations is idempotent: right after a cleanup,
\* with the clock unchanged and no activity in between, a second call leaves
\* the conversations and last-activity maps exactly as the first call left them.
C12_CleanupIdempotent ==
    last.op = "cleanup" =>
        /\ cleanup_inactive_conversations.conversations = conversations
        /\ cleanup_inactive_conversations.last_activity = last_activity

\* a cleanup has just removed the conversations of all users at once
C12_Witness ==
    /\ last.op = "cleanup"
    /\ last.removed = Users
    /\ conversations = <<>>
    /\ last_activity = <<>>


\* C13: cleanup_old_data keeps for each user exactly the timestamps newer
\* than now - 1 hour, in their order, and removes the entry of a user for whom
\* none remain, so that no entry with an empty list survives; a second call at
\* the same clock value gives the same map as the first.
C13_CleanupOldDataExact ==
    [][last'.op = "cleanup" =>
           /\ \A u \in Users :
                  LET kept == NewerThan(Get(user_requests, u, <<>>), now - HOUR)
                  IN  IF kept = <<>> THEN u \notin DOMAIN user_requests'
                      ELSE u \in DOMAIN user_requests' /\ user_requests'[u] = kept
           /\ \A u \in DOMAIN user_requests' : user_requests'[u] # <<>>
           /\ cleanup_old_data' = user_requests']_vars

\* a cleanup run one hour after the start has dropped the entry of one user and
\* has kept the entry of another, which holds a timestamp newer than the cutoff
C13_Witness ==
    /\ last.op = "cleanup"
    /\ last.dropped # {}
    /\ now = HOUR
    /\ \E u \in DOMAIN user_requests : user_requests[u] = <<1>> /\ admitted[u] = <<>>
    /\ config.RATE_LIMIT_MINUTES = MaxWindow


\* the decision is_allowed(u) takes on the map reqs at the current clock value
Admits(reqs, u) ==
    Len(NewerThan(Get(reqs, u, <<>>), now - config.RATE_LIMIT_MINUTES))
        < config.RATE_LIMIT_REQUESTS

\* C14: for every user, every reachable state and every configured admission
\* window, is_allowed(user) decides the same whether or not cleanup_old_data ran
\* just before it.
C14_CleanupKeepsDecision ==
    now >= cleanupDue =>
        \A u \in Users : Admits(cleanup_old_data, u) = Admits(user_requests, u)


\* ------------------------------------------------- completion and stream
\* the identities of the turns of a history
Ids(lst) == {lst[i].id : i \in 1..Len(lst)}

\* the step ends the request of coroutine f after its completion call started
RequestEnds(f) == flows[f].pc = "generating" /\ flows'[f].pc = "idle"

\* C15: a model turn is appended only by a request whose stream ran to its
\* end with non-blank text; a request that ends otherwise (the completion call
\* fails, the stream errors or is interrupted) appends nothing, and the user
\* turn it added at its start is still in the user's history.
C15_ModelTurnOnlyOnSuccess ==
    [][/\ \A u \in Users :
              (nextId' > nextId /\ nextId \in Ids(HistoryAfter(u))
                  /\ HistoryAfter(u)[Len(HistoryAfter(u))].role = "model") =>
                  \E f \in Flows : RequestEnds(f) /\ flows[f].user = u
       /\ \A f \in Flows :
              (RequestEnds(f) /\ nextId' = nextId) =>
                  /\ HistoryAfter(flows[f].user) = History(flows[f].user)
                  /\ flows[f].own \in Ids(HistoryAfter(flows[f].user))
      ]_vars


\* C16: an exception raised by one of the cleanups is caught inside
\* _periodic_cleanup: the cycle ends with the task asleep for the next interval,
\* and after a failed cycle the task runs a cleanup cycle again once a later
\* interval has passed.
C16_CleanupTaskSurvives ==
    /\ [](last.op = "cleanup" => cleanupDue = now + CLEANUP_INTERVAL)
    /\ \A t \in Instants :
           (/\ last.op = "cleanup" /\ ~last.ok /\ now = t
            /\ \E t2 \in Instants : t2 >= t + CLEANUP_INTERVAL)
               ~> (last.op = "cleanup" /\ now > t)

\* the first cycle has failed with stale rate data left in place, and the task
\* sleeps until the next interval, which the clock can still reach
C16_Witness ==
    /\ last.op = "cleanup"
    /\ ~last.ok
    /\ now = HOUR
    /\ cleanupDue = HOUR + CLEANUP_INTERVAL
    /\ \E u \in DOMAIN user_requests : user_requests[u][1] = 0


\* ----------------------------------------------------- order of the turns
\* turn identities are given in the order the add_message calls complete, so a
\* contiguous run of one user's turns has consecutive identities
Consecutive(lst) == \A i \in 1..(Len(lst) - 1) : lst[i + 1].id = lst[i].id + 1

\* C17: the stored history of a user is a contiguous run of the turns appended
\* for the user, in the order of their add_message calls; a step removes turns
\* only from the front (never a turn while an older one stays), and a turn that
\* left the history never comes back: the only turn a step can bring in is the
\* one its add_message appends.
C17_OnlyFrontTruncation ==
    [][\A u \in Senders :
           LET old == Ids(History(u))
               new == Ids(HistoryAfter(u))
           IN  /\ Consecutive(HistoryAfter(u))
               /\ \A a \in old \ new : \A b \in new : a < b
               /\ new \ old \subseteq (IF nextId' > nextId THEN {nextId} ELSE {})
      ]_vars


\* C18: when handle_message reaches the completion call, the pruned history
\* it passes is non-empty and contains the user turn this invocation added; the
\* branch for an empty pruned history is never taken.
C18_CompletionGetsOwnTurn ==
    [][\A f \in Flows :
           /\ (flows[f].pc = "placeholder" /\ flows'[f].pc = "generating") =>
                  /\ heap[flows[f].history] # <<>>
                  /\ flows[f].own \in Ids(heap[flows[f].history])
           /\ flows[f].pc \in {"counting", "counted"} => flows'[f].pc # "idle"
      ]_vars


\* C19: no reachable state holds a stored history that the idle-expiry
\* cleanup can never delete: cleanup_inactive_conversations looks only at the
\* users of the last-activity map, so every stored history has a last-activity
\* record.
C19_EveryHistoryCanExpire ==
    \A u \in DOMAIN conversations : u \in DOMAIN last_activity


\* some of the edits of the running cleanup pass are made and others are not:
\* a user is cleared, and another user or the rate map is still to be cleaned
PartlyCleaned ==
    /\ sweep.pc = "clearing"
    /\ sweep.removed # {}
    /\ sweep.todo # {} \/ cleanup_old_data # user_requests

C22_SameKeys ==
    DOMAIN conversations = DOMAIN last_activity


\* the users a step works for: the user of the operation it executed and the
\* user of every coroutine it moved
Acting ==
    {last'.user} \cup {flows[f].user : f \in {g \in Flows : flows'[g] # flows[g]}}
                 \cup {flows'[f].user : f \in {g \in Flows : flows'[g] # flows[g]}}

SameRateWindow(v) ==
    /\ (v \in DOMAIN user_requests') = (v \in DOMAIN user_requests)
    /\ v \in DOMAIN user_requests => user_requests'[v] = user_requests[v]

\* C21: users are isolated: a step of is_allowed(U), add_message(U, ...),
\* _prune_history_by_tokens(U) or clear_conversation(U) works for one user only
\* and leaves the rate window, the history and the last-activity record of every
\* other user V unchanged, and with them the admission decision for V.
C21_UsersIsolated ==
    [][now' = now =>
          /\ Cardinality(Acting \cap Users) <= 1
          /\ \A v \in Users \ Acting :
                /\ SameRateWindow(v)
                /\ SameConversation(v)
                /\ Admits(user_requests', v) = Admits(user_requests, v)]_vars

\* a user has cleared their conversation while another user, with a stored
\* history and a recorded request, is suspended in the token count
C21_Witness ==
    /\ last.op = "clear"
    /\ \E v \in Users \ {last.user} :
          /\ v \in DOMAIN conversations
          /\ v \in DOMAIN last_activity
          /\ v \in DOMAIN user_requests
          /\ \E f \in Flows : flows[f].user = v /\ flows[f].pc = "counting"


====
